---- MODULE Spec2Model ----
(***************************************************************************)
(* A model of app.py, the AlgoTest trade analyzer: one top-to-bottom run   *)
(* of the script over an uploaded .clktrd document.                        *)
(*                                                                         *)
(* A trade entry (one dict of data.trades, later one DataFrame row) is a   *)
(* record                                                                  *)
(*   idx         position of the entry in the uploaded array (the pandas   *)
(*               index before reset_index; kept as the row's identity)     *)
(*   missing     the required or optional keys the entry's dict lacks      *)
(*   bad         the keys whose value does not parse (only TradedTime)     *)
(*   Ticker, Position, TradedPrice, Quantity, TradedTime                   *)
(*   Strike, Expiry   <<>> for null, <<v>> for a value                     *)
(* A cell of the DataFrame is NaN when the entry lacks the key or holds    *)
(* null.  TradedTime is a tick count: TicksPerDay ticks make a day,        *)
(* TicksPerMonth ticks a calendar month.                                   *)
(***************************************************************************)
EXTENDS Integers, Sequences, FiniteSets, TLC

\* ------------------------------------------------------------- bounds
MaxTrades == 3
LongTrades == 4
MaxQty == 2
MaxTime == 1
MaxOptTime == 2
MaxPrice == 2
MaxOptTrades == 2
MaxDocTrades == 2
TicksPerDay == 1
TicksPerMonth == 2

Tickers == {"X", "Y"}
Positions == {1, -1}
AllKeys == {"Ticker", "Position", "TradedPrice", "Quantity", "TradedTime", "Strike", "Expiry"}
NoValue == <<>>

VARIABLES
    hasTrades,       \* whether the uploaded document holds data.trades
    pc,              \* position of the script
    df,              \* the uploaded entries, from line 29 on the DataFrame's rows
    total_pnl,       \* df["Cashflow"].sum()
    rendered,        \* the outputs handed to streamlit so far
    option_holding,  \* the option holding table (set of rows)
    open_positions,  \* the FIFO queue of open lots
    cash_positions,  \* the closed positions emitted so far
    row_i,           \* rows of cash_df the for loop has consumed
    qty_to_close,    \* the close branch's remaining quantity
    pairs,           \* history: <<entry row, closing row>> of each cash_positions element
    monthly_pnl,     \* stage 1 of the monthly rollup (set of rows)
    month_total      \* stage 2 of the monthly rollup (set of rows)

vars == <<hasTrades, pc, df, total_pnl, rendered, option_holding, open_positions,
          cash_positions, row_i, qty_to_close, pairs, monthly_pnl, month_total>>

\* ------------------------------------------------------------ helpers
Range(s) == {s[i] : i \in 1..Len(s)}

\* A DataFrame cell is NaN: the entry had no such key, or held null.
IsNa(r, c) ==
    \/ c \in r.missing
    \/ c = "Strike" /\ r.Strike = NoValue
    \/ c = "Expiry" /\ r.Expiry = NoValue

\* The DataFrame's columns: the union of the entries' keys.
Columns(d) == {c \in AllKeys : \E i \in 1..Len(d) : c \notin d[i].missing}

\* df[df["Strike"].isna()] and df[df["Strike"].notna()]
IsCash(r) == IsNa(r, "Strike")
IsOption(r) == ~IsNa(r, "Strike")
cash_df == SelectSeq(df, IsCash)
option_df == SelectSeq(df, IsOption)

\* -df["Position"] * df["TradedPrice"] * df["Quantity"]
Cashflow(r) == (0 - r.Position) * r.TradedPrice * r.Quantity
CashflowIsNa(r) == IsNa(r, "Position") \/ IsNa(r, "TradedPrice") \/ IsNa(r, "Quantity")

\* df["Cashflow"].sum(), which skips NaN
RECURSIVE TotalPnl(_)
TotalPnl(d) ==
    IF d = <<>> THEN 0
    ELSE (IF CashflowIsNa(Head(d)) THEN 0 ELSE Cashflow(Head(d))) + TotalPnl(Tail(d))

\* (exit - entry).days
HoldingDays(entryTime, exitTime) == (exitTime - entryTime) \div TicksPerDay

\* dt.to_period("M")
MonthOf(t) == t \div TicksPerMonth

\* ------------------------------------------------------ load, normalize
\* data = json.load(...); df = pd.DataFrame(data["data"]["trades"]):
\* KeyError when the document has no data.trades.
LoadFile ==
    /\ pc = "load"
    /\ pc' = IF hasTrades THEN "normalize" ELSE "error"
    /\ UNCHANGED <<hasTrades, df, total_pnl, rendered, option_holding, open_positions,
                   cash_positions, row_i, qty_to_close, pairs, monthly_pnl, month_total>>

Orderings(n) == {p \in [1..n -> 1..n] : \A i \in 1..n, j \in 1..n : i # j => p[i] # p[j]}

\* df.sort_values("TradedTime") with the default kind="quicksort", which
\* pandas documents as not stable: the result is ascending by
\* TradedTime, and rows of equal TradedTime come in any order.
SortValues(d) ==
    {[i \in 1..Len(d) |-> d[p[i]]] : p \in
        {q \in Orderings(Len(d)) :
            \A i \in 1..Len(d), j \in 1..Len(d) :
                i < j => d[q[i]].TradedTime <= d[q[j]].TradedTime}}

\* Lines 31-32.  df["TradedTime"] raises KeyError when no entry has the
\* key (an empty array included); pd.to_datetime raises on a value that
\* is no timestamp.
Normalize ==
    /\ pc = "normalize"
    /\ IF "TradedTime" \notin Columns(df) \/ (\E i \in 1..Len(df) : "TradedTime" \in df[i].bad)
       THEN pc' = "error" /\ UNCHANGED df
       ELSE pc' = "cashflow" /\ df' \in SortValues(df)
    /\ UNCHANGED <<hasTrades, total_pnl, rendered, option_holding, open_positions,
                   cash_positions, row_i, qty_to_close, pairs, monthly_pnl, month_total>>

\* Lines 37-51: the Cashflow column and its total.  A column no entry
\* has raises KeyError; an entry that lacks a key others have gives NaN.
CashflowStep ==
    /\ pc = "cashflow"
    /\ IF {"Position", "TradedPrice", "Quantity"} \subseteq Columns(df)
       THEN pc' = "metrics" /\ total_pnl' = TotalPnl(df)
       ELSE pc' = "error" /\ UNCHANGED total_pnl
    /\ UNCHANGED <<hasTrades, df, rendered, option_holding, open_positions,
                   cash_positions, row_i, qty_to_close, pairs, monthly_pnl, month_total>>

\* Lines 56-67: the metric cards and the equity curve are drawn.
MetricCards ==
    /\ pc = "metrics"
    /\ rendered' = rendered \cup {"metrics", "equity_curve"}
    /\ pc' = "option_holding"
    /\ UNCHANGED <<hasTrades, df, total_pnl, option_holding, open_positions,
                   cash_positions, row_i, qty_to_close, pairs, monthly_pnl, month_total>>

\* ------------------------------------------------------ option holding
MinTime(S) == CHOOSE t \in S : \A u \in S : t <= u
MaxTimeOf(S) == CHOOSE t \in S : \A u \in S : u <= t

\* groupby drops the rows with NaN in a key column.
HasLifecycleKey(r) == ~IsNa(r, "Ticker") /\ ~IsNa(r, "Strike") /\ ~IsNa(r, "Expiry")

\* groupby(["Ticker", "Strike", "Expiry"]).agg(min, max) and HoldingDays
OptionHoldingOf(d) ==
    LET rows == {r \in Range(d) : HasLifecycleKey(r)}
        times(r) == {x.TradedTime : x \in
                        {y \in rows : y.Ticker = r.Ticker /\ y.Strike = r.Strike
                                        /\ y.Expiry = r.Expiry}}
    IN  {[Ticker |-> r.Ticker, Strike |-> r.Strike, Expiry |-> r.Expiry,
          EntryTime |-> MinTime(times(r)), ExitTime |-> MaxTimeOf(times(r)),
          HoldingDays |-> HoldingDays(MinTime(times(r)), MaxTimeOf(times(r)))] : r \in rows}

\* Lines 73-92.  df["Strike"] raises KeyError when no entry has the key;
\* the groupby raises KeyError on a key column no entry has.
OptionHolding ==
    /\ pc = "option_holding"
    /\ IF "Strike" \notin Columns(df)
       THEN pc' = "error" /\ UNCHANGED <<option_holding, rendered>>
       ELSE IF option_df = <<>>
       THEN /\ pc' = "for"
            /\ rendered' = rendered \cup {"no_option_info"}
            /\ UNCHANGED option_holding
       ELSE IF ~({"Ticker", "Expiry"} \subseteq Columns(df))
       THEN pc' = "error" /\ UNCHANGED <<option_holding, rendered>>
       ELSE /\ pc' = "for"
            /\ option_holding' = OptionHoldingOf(option_df)
            /\ rendered' = rendered \cup {"option_holding"}
    /\ UNCHANGED <<hasTrades, df, total_pnl, open_positions,
                   cash_positions, row_i, qty_to_close, pairs, monthly_pnl, month_total>>

\* ------------------------------------------------- FIFO lot matching
\* row["Position"] == 1
IsOpen(r) == ~IsNa(r, "Position") /\ r.Position = 1

\* (a loop that goes on at qty_to_close = 0)
WhileCondWeak(q, queue) == q >= 0 /\ queue # <<>>

\* while qty_to_close > 0 and open_positions
WhileCond(q, queue) == q > 0 /\ queue # <<>>

\* (a match that takes the whole closing quantity from the head lot)
MatchedQtyNoMin(q, entry) == q

\* min(qty_to_close, entry["Quantity"]); Python's min keeps its first
\* argument unless the second compares smaller, which NaN never does.
MatchedQty(q, entry) ==
    IF ~IsNa(entry, "Quantity") /\ entry.Quantity < q THEN entry.Quantity ELSE q

\* The dict appended to cash_positions.
ClosedPosition(row, entry, matched_qty) ==
    [Ticker |-> row.Ticker,
     EntryTime |-> entry.TradedTime,
     ExitTime |-> row.TradedTime,
     Quantity |-> matched_qty,
     HoldingDays |-> HoldingDays(entry.TradedTime, row.TradedTime)]

\* One turn of the for loop over cash_df: an open is appended to the
\* queue, a close starts the while loop.  A NaN quantity fails
\* qty_to_close > 0 at once, so the while loop is skipped.
ForRow ==
    /\ pc = "for"
    /\ row_i < Len(cash_df)
    /\ LET row == cash_df[row_i + 1] IN
       IF IsOpen(row)
       THEN /\ open_positions' = Append(open_positions, row)
            /\ row_i' = row_i + 1
            /\ UNCHANGED <<pc, qty_to_close>>
       ELSE IF IsNa(row, "Quantity")
       THEN /\ row_i' = row_i + 1
            /\ UNCHANGED <<pc, qty_to_close, open_positions>>
       ELSE /\ qty_to_close' = row.Quantity
            /\ pc' = "while"
            /\ UNCHANGED <<row_i, open_positions>>
    /\ UNCHANGED <<hasTrades, df, total_pnl, rendered, option_holding,
                   cash_positions, pairs, monthly_pnl, month_total>>

\* One test of the while condition and, when it holds, one turn of the
\* loop body: the head lot is popped, a position is emitted, and
\* qty_to_close is reduced.  The popped lot is not put back.
\* row["Ticker"] raises KeyError when no entry had a Ticker.
WhileStep ==
    /\ pc = "while"
    /\ LET row == cash_df[row_i + 1] IN
       IF WhileCond(qty_to_close, open_positions)
       THEN LET entry == Head(open_positions)
                matched_qty == MatchedQty(qty_to_close, entry)
            IN  IF "Ticker" \notin Columns(df)
                THEN /\ pc' = "error"
                     /\ open_positions' = Tail(open_positions)
                     /\ UNCHANGED <<cash_positions, pairs, qty_to_close, row_i>>
                ELSE /\ open_positions' = Tail(open_positions)
                     /\ cash_positions' = Append(cash_positions,
                            ClosedPosition(row, entry, matched_qty))
                     /\ pairs' = Append(pairs, <<entry, row>>)
                     /\ qty_to_close' = qty_to_close - matched_qty
                     /\ UNCHANGED <<pc, row_i>>
       ELSE /\ pc' = "for"
            /\ row_i' = row_i + 1
            /\ UNCHANGED <<open_positions, cash_positions, pairs, qty_to_close>>
    /\ UNCHANGED <<hasTrades, df, total_pnl, rendered, option_holding,
                   monthly_pnl, month_total>>

\* The for loop is exhausted: the cash holding table or the notice.
CashRender ==
    /\ pc = "for"
    /\ row_i = Len(cash_df)
    /\ rendered' = rendered \cup {IF cash_positions # <<>> THEN "cash_holding" ELSE "no_cash_info"}
    /\ pc' = "monthly"
    /\ UNCHANGED <<hasTrades, df, total_pnl, option_holding, open_positions,
                   cash_positions, row_i, qty_to_close, pairs, monthly_pnl, month_total>>

\* ------------------------------------------------------ monthly rollup
\* "PE" if row["Position"] == -1 else "PE Buyback"
OptionType(r) == IF ~IsNa(r, "Position") /\ r.Position = -1 THEN "PE" ELSE "PE Buyback"

\* The groupby key of stage 1; rows with NaN in a key column are dropped.
MonthKey(r) == <<MonthOf(r.TradedTime), r.Ticker, r.Strike, r.Expiry>>

\* (an aggregation that keeps the group's first value)
AggFirst(acc, x) == acc

\* agg(..., "sum"), which skips NaN
AggSum(acc, x) == acc + x

\* opt_df.groupby([Month, Ticker, Strike, Expiry]).agg(first, sum, sum),
\* a row at a time: key -> accumulator.
RECURSIVE GroupMonthly(_, _)
GroupMonthly(rows, acc) ==
    IF rows = <<>> THEN acc
    ELSE LET r == Head(rows)
             k == MonthKey(r)
             qty == IF IsNa(r, "Quantity") THEN 0 ELSE r.Quantity
             pnl == IF CashflowIsNa(r) THEN 0 ELSE Cashflow(r)
         IN  IF ~HasLifecycleKey(r) THEN GroupMonthly(Tail(rows), acc)
             ELSE IF k \in DOMAIN acc
             THEN GroupMonthly(Tail(rows),
                    [acc EXCEPT ![k] = [OptionType |-> @.OptionType,
                                        Contracts |-> AggSum(@.Contracts, qty),
                                        Profit_Loss |-> AggSum(@.Profit_Loss, pnl)]])
             ELSE GroupMonthly(Tail(rows),
                    acc @@ (k :> [OptionType |-> OptionType(r), Contracts |-> qty,
                                  Profit_Loss |-> pnl]))

\* monthly_pnl: one row per key (the table's row order is left out).
MonthlyPnlOf(rows) ==
    LET acc == GroupMonthly(rows, <<>>)
    IN  {[Month |-> k[1], Ticker |-> k[2], Strike |-> k[3], Expiry |-> k[4],
          OptionType |-> acc[k].OptionType, Contracts |-> acc[k].Contracts,
          Profit_Loss |-> acc[k].Profit_Loss] : k \in DOMAIN acc}

\* monthly_pnl.groupby("Month")["Profit / Loss"].sum(), a row at a time.
RECURSIVE GroupMonthTotal(_, _)
GroupMonthTotal(rows, acc) ==
    IF rows = {} THEN acc
    ELSE LET r == CHOOSE x \in rows : TRUE
         IN  IF r.Month \in DOMAIN acc
             THEN GroupMonthTotal(rows \ {r},
                    [acc EXCEPT ![r.Month] = AggSum(@, r.Profit_Loss)])
             ELSE GroupMonthTotal(rows \ {r}, acc @@ (r.Month :> r.Profit_Loss))

MonthTotalOf(rows) ==
    LET acc == GroupMonthTotal(rows, <<>>)
    IN  {[Month |-> m, Profit_Loss |-> acc[m]] : m \in DOMAIN acc}

\* Lines 142-178.  The groupby raises KeyError on a key column no entry
\* has.  On an empty opt_df the outcome of line 151 is the library's:
\* opt_df.apply(option_type, axis=1) returns an empty Series in pandas
\* from 1.5 on, and before that an empty DataFrame, whose assignment to
\* the single column "OptionType" raises ValueError.
MonthlyPnl ==
    /\ pc = "monthly"
    /\ IF ~({"Ticker", "Expiry"} \subseteq Columns(df))
       THEN pc' = "error" /\ UNCHANGED <<monthly_pnl, rendered>>
       ELSE /\ pc' \in (IF option_df = <<>> THEN {"month_total", "error"} ELSE {"month_total"})
            /\ IF pc' = "error"
               THEN UNCHANGED <<monthly_pnl, rendered>>
               ELSE /\ monthly_pnl' = MonthlyPnlOf(option_df)
                    /\ rendered' = rendered \cup {"monthly_pnl"}
    /\ UNCHANGED <<hasTrades, df, total_pnl, option_holding, open_positions,
                   cash_positions, row_i, qty_to_close, pairs, month_total>>

\* Lines 185-192.
MonthTotal ==
    /\ pc = "month_total"
    /\ month_total' = MonthTotalOf(monthly_pnl)
    /\ rendered' = rendered \cup {"month_total"}
    /\ pc' = "done"
    /\ UNCHANGED <<hasTrades, df, total_pnl, option_holding, open_positions,
                   cash_positions, row_i, qty_to_close, pairs, monthly_pnl>>

\* ------------------------------------------------- inputs of the model
\* A complete entry: every key present, every value of its type.
Entry(i, tk, pos, pr, q, t, st) ==
    [idx |-> i, missing |-> {}, bad |-> {}, Ticker |-> tk, Position |-> pos,
     TradedPrice |-> pr, Quantity |-> q, TradedTime |-> t, Strike |-> st, Expiry |-> st]

IsSortedByTime(d) ==
    \A i \in 1..Len(d), j \in 1..Len(d) : i < j => d[i].TradedTime <= d[j].TradedTime

\* The time columns a sorted frame of n rows can hold.
SortedTimes(n, last) ==
    {t \in [1..n -> 0..last] : \A i \in 1..n, j \in 1..n : i < j => t[i] <= t[j]}

\* Cash trades only, as the DataFrame holds them after sort_values.
CashFrame(n, a, t) ==
    [i \in 1..n |-> Entry(i, a[i][1], a[i][2], 1, a[i][3], t[i], NoValue)]

\* The script at the head of the for loop over a cash-only frame of a
\* length in N: the option table was empty, the metrics are drawn.
InitFifoOf(N) ==
    /\ hasTrades = TRUE
    /\ \E n \in N :
          \E a \in [1..n -> Tickers \X Positions \X (1..MaxQty)], t \in SortedTimes(n, MaxTime) :
             /\ df = CashFrame(n, a, t)
             /\ total_pnl = TotalPnl(CashFrame(n, a, t))
    /\ pc = "for"
    /\ rendered = {"metrics", "equity_curve", "no_option_info"}
    /\ option_holding = {}
    /\ open_positions = <<>>
    /\ cash_positions = <<>>
    /\ row_i = 0
    /\ qty_to_close = 0
    /\ pairs = <<>>
    /\ monthly_pnl = {}
    /\ month_total = {}

InitFifo == InitFifoOf(0..MaxTrades)
InitFifoLong == InitFifoOf({LongTrades})

NextFifo == ForRow \/ WhileStep

SpecFifo == InitFifo /\ [][NextFifo]_vars
SpecFifoLong == InitFifoLong /\ [][NextFifo]_vars

\* ---------------------------------------------- the whole script, Spec
\* An uploaded entry: complete, or lacking Ticker, Quantity or the
\* Strike/Expiry pair, its TradedTime a timestamp or not.
MissingKinds == {{}, {"Ticker"}, {"Quantity"}, {"Strike", "Expiry"}}

DocEntry(i, a) ==
    [Entry(i, IF "Ticker" \in a[5] THEN "NaN" ELSE "X", a[1], 1,
           IF "Quantity" \in a[5] THEN 0 ELSE a[2], a[3],
           IF "Strike" \in a[5] THEN NoValue ELSE a[4])
        EXCEPT !.missing = a[5], !.bad = a[6]]

DocAttrs ==
    Positions \X (1..MaxQty) \X (0..MaxTime) \X {NoValue, <<1>>}
        \X MissingKinds \X {{}, {"TradedTime"}}

InitVars ==
    /\ total_pnl = 0
    /\ rendered = {}
    /\ option_holding = {}
    /\ open_positions = <<>>
    /\ cash_positions = <<>>
    /\ row_i = 0
    /\ qty_to_close = 0
    /\ pairs = <<>>
    /\ monthly_pnl = {}
    /\ month_total = {}

\* A file has been uploaded: a document without data.trades, or one
\* whose array holds up to MaxDocTrades entries.
Init ==
    /\ pc = "load"
    /\ \/ hasTrades = FALSE /\ df = <<>>
       \/ /\ hasTrades = TRUE
          /\ \E n \in 0..MaxDocTrades : \E a \in [1..n -> DocAttrs] :
                df = [i \in 1..n |-> DocEntry(i, a[i])]
    /\ InitVars

Next ==
    \/ LoadFile
    \/ Normalize
    \/ CashflowStep
    \/ MetricCards
    \/ OptionHolding
    \/ ForRow
    \/ WhileStep
    \/ CashRender
    \/ MonthlyPnl
    \/ MonthTotal

Spec == Init /\ [][Next]_vars

\* ------------------------------------------- the rollup, SpecMonthly
\* The script at line 142 over a frame of option trades only: no cash
\* row was matched, the option holding table is drawn.
OptionFrame(n, a, t) ==
    [i \in 1..n |-> Entry(i, a[i][1], a[i][2], a[i][3], a[i][4], t[i], <<1>>)]

InitMonthly ==
    /\ hasTrades = TRUE
    /\ pc = "monthly"
    /\ \E n \in 1..MaxOptTrades :
          \E a \in [1..n -> Tickers \X Positions \X (1..MaxPrice) \X (1..MaxQty)],
             t \in SortedTimes(n, MaxOptTime) :
             /\ df = OptionFrame(n, a, t)
             /\ total_pnl = TotalPnl(OptionFrame(n, a, t))
             /\ option_holding = OptionHoldingOf(OptionFrame(n, a, t))
    /\ rendered = {"metrics", "equity_curve", "option_holding", "no_cash_info"}
    /\ open_positions = <<>>
    /\ cash_positions = <<>>
    /\ row_i = 0
    /\ qty_to_close = 0
    /\ pairs = <<>>
    /\ monthly_pnl = {}
    /\ month_total = {}

NextMonthly == MonthlyPnl \/ MonthTotal

SpecMonthly == InitMonthly /\ [][NextMonthly]_vars

\* ------------------------------------- the matcher as a pure function
\* Lines 109-123 run to the end of one close: <<queue, cash_positions>>.
RECURSIVE CloseLoop(_, _, _, _)
CloseLoop(row, q, queue, out) ==
    IF WhileCond(q, queue)
    THEN LET entry == Head(queue)
             matched_qty == MatchedQty(q, entry)
         IN  CloseLoop(row, q - matched_qty, Tail(queue),
                       Append(out, ClosedPosition(row, entry, matched_qty)))
    ELSE <<queue, out>>

\* Lines 100-123 over a whole frame of cash rows: cash_positions.
RECURSIVE FifoFrom(_, _, _)
FifoFrom(rows, queue, out) ==
    IF rows = <<>> THEN out
    ELSE LET row == Head(rows) IN
         IF IsOpen(row) THEN FifoFrom(Tail(rows), Append(queue, row), out)
         ELSE IF IsNa(row, "Quantity") THEN FifoFrom(Tail(rows), queue, out)
         ELSE LET r == CloseLoop(row, row.Quantity, queue, out)
              IN  FifoFrom(Tail(rows), r[1], r[2])

FifoMatch(rows) == FifoFrom(rows, <<>>, <<>>)

\* ------------------------------------------------ claims on the matcher
RECURSIVE SumQuantity(_)
SumQuantity(s) == IF s = <<>> THEN 0 ELSE Head(s).Quantity + SumQuantity(Tail(s))

IsClose(r) == ~IsOpen(r)
Opens(d) == SelectSeq(d, IsOpen)
Closes(d) == SelectSeq(d, IsClose)
Prefix(d, n) == SubSeq(d, 1, n)

\* The for loop has consumed every row of cash_df.
FifoDone == pc = "for" /\ row_i = Len(cash_df)

\* The quantity the first k emitted positions took from opening trade o.
RECURSIVE MatchedOfLot(_, _)
MatchedOfLot(o, k) ==
    IF k = 0 THEN 0
    ELSE (IF pairs[k][1].idx = o.idx THEN cash_positions[k].Quantity ELSE 0)
         + MatchedOfLot(o, k - 1)

\* The quantity the first k emitted positions attribute to closing trade c.
RECURSIVE MatchedOfClose(_, _)
MatchedOfClose(c, k) ==
    IF k = 0 THEN 0
    ELSE (IF pairs[k][2].idx = c.idx THEN cash_positions[k].Quantity ELSE 0)
         + MatchedOfClose(c, k - 1)

OneInstrument(d) == \A i \in 1..Len(d), j \in 1..Len(d) : d[i].Ticker = d[j].Ticker

\* Every close finds enough open quantity: the running open quantity of
\* the stream never goes negative (so total close <= total open).
ClosesCovered(d) ==
    \A n \in 1..Len(d) :
        SumQuantity(Closes(Prefix(d, n))) <= SumQuantity(Opens(Prefix(d, n)))

\* C1. FIFO conservation: no open lot ever holds a negative quantity, and
\* for a one-instrument stream whose closes are all covered by earlier
\* opens, once the whole stream is processed the matched quantities of
\* the emitted positions sum to the total closed quantity.
C1_FifoConservation ==
    /\ \A i \in 1..Len(open_positions) : open_positions[i].Quantity >= 0
    /\ (FifoDone /\ OneInstrument(cash_df) /\ ClosesCovered(cash_df))
          => SumQuantity(cash_positions) = SumQuantity(Closes(cash_df))

\* C2. Partial-fill lot retention: a turn of the while loop that matches
\* less than the quantity of the head lot (a lot of the close's own
\* instrument) leaves that lot at the head of the
\* queue, its quantity reduced by the matched amount.
C2_PartialFillRetention ==
    [][(pc = "while" /\ WhileCond(qty_to_close, open_positions)
            /\ cash_df[row_i + 1].Ticker = Head(open_positions).Ticker
            /\ qty_to_close < Head(open_positions).Quantity)
          => /\ open_positions' # <<>>
             /\ Head(open_positions').idx = Head(open_positions).idx
             /\ Head(open_positions').Quantity
                    = Head(open_positions).Quantity - qty_to_close]_vars

\* C3. Per-instrument isolation: every emitted position pairs a close
\* with a lot of the same instrument, and the positions emitted for one
\* instrument are those the matcher emits on that instrument's trades alone.
C3_InstrumentIsolation ==
    /\ \A k \in 1..Len(pairs) : pairs[k][1].Ticker = pairs[k][2].Ticker
    /\ FifoDone =>
          \A tk \in Tickers :
              SelectSeq(cash_positions, LAMBDA p : p.Ticker = tk)
                  = FifoMatch(SelectSeq(cash_df, LAMBDA r : r.Ticker = tk))

\* C4. Unmatched closing quantity is tolerated: no error is raised, no
\* lot of non-positive quantity exists, a position never carries more
\* than its lot held or its close asked for, a close with no earlier
\* open emits nothing, and the queue is always exactly the opens consumed
\* so far less the lots popped, so later trades match as usual.
C4_UnmatchedCloseTolerated ==
    /\ pc # "error"
    /\ \A i \in 1..Len(open_positions) : open_positions[i].Quantity > 0
    /\ \A k \in 1..Len(pairs) : cash_positions[k].Quantity <= pairs[k][1].Quantity
    /\ \A i \in 1..Len(cash_df) :
          LET c == cash_df[i] IN
          IsClose(c) =>
              /\ MatchedOfClose(c, Len(pairs)) <= c.Quantity
              /\ Opens(Prefix(cash_df, i)) = <<>> => MatchedOfClose(c, Len(pairs)) = 0
    /\ pc = "while" =>
          /\ qty_to_close >= 0
          /\ MatchedOfClose(cash_df[row_i + 1], Len(pairs)) + qty_to_close
                 = cash_df[row_i + 1].Quantity
    /\ LET opened == Opens(Prefix(cash_df, row_i))
       IN  /\ Len(pairs) <= Len(opened)
           /\ open_positions = SubSeq(opened, Len(pairs) + 1, Len(opened))

\* A close lost part of its quantity for want of an open lot, and a
\* later close was matched all the same.
C4_Witness ==
    /\ FifoDone
    /\ \E i \in 1..Len(cash_df) :
          /\ IsClose(cash_df[i])
          /\ MatchedOfClose(cash_df[i], Len(pairs)) < cash_df[i].Quantity
          /\ \E k \in 1..Len(pairs) : pairs[k][2].idx > cash_df[i].idx

\* C5. FIFO ordering: the positions one close emits have non-decreasing
\* entry times, and no lot is matched while an older opening trade of the
\* instrument still has quantity that no position has taken.
C5_FifoOrdering ==
    /\ \A k \in 1..Len(pairs), l \in 1..Len(pairs) :
          (k < l /\ pairs[k][2].idx = pairs[l][2].idx)
              => cash_positions[k].EntryTime <= cash_positions[l].EntryTime
    /\ \A k \in 1..Len(pairs) : \A i \in 1..Len(cash_df) :
          LET o == cash_df[i]
              e == pairs[k][1]
          IN  (IsOpen(o) /\ o.Ticker = e.Ticker /\ o.idx < e.idx)
                  => MatchedOfLot(o, k - 1) >= o.Quantity

\* C10. Every emitted position has 0 < quantity <= its opening trade's
\* quantity and exit time >= entry time (holding days >= 0); the
\* positions of one close sum to at most its quantity; and every turn of
\* the while loop pops a lot, so the turns taken never exceed the opens
\* consumed and the loop ends.
C10_EmittedPositions ==
    /\ \A k \in 1..Len(pairs) :
          LET p == cash_positions[k] IN
          /\ p.Quantity > 0
          /\ p.Quantity <= pairs[k][1].Quantity
          /\ p.EntryTime = pairs[k][1].TradedTime
          /\ p.ExitTime = pairs[k][2].TradedTime
          /\ p.ExitTime >= p.EntryTime
          /\ p.HoldingDays >= 0
    /\ \A i \in 1..Len(cash_df) :
          IsClose(cash_df[i]) => MatchedOfClose(cash_df[i], Len(pairs)) <= cash_df[i].Quantity
    /\ Len(cash_positions) = Len(pairs)
    /\ Len(pairs) + Len(open_positions) = Len(Opens(Prefix(cash_df, row_i)))

\* A close took part of a lot opened a whole day earlier.
C10_Witness ==
    \E k \in 1..Len(pairs) :
        /\ cash_positions[k].Quantity < pairs[k][1].Quantity
        /\ cash_positions[k].HoldingDays > 0

\* ------------------------------------------- claims on the whole script
\* C6. Sorting determinism: once normalized, the rows are ascending by
\* TradedTime and rows of equal TradedTime keep their uploaded order.
C6_SortingDeterminism ==
    pc \notin {"load", "normalize", "error"} =>
        /\ IsSortedByTime(df)
        /\ \A i \in 1..Len(df), j \in 1..Len(df) :
              (i < j /\ df[i].TradedTime = df[j].TradedTime) => df[i].idx < df[j].idx

\* The cashflow of the i-th row, -side * price * quantity.
TradePnl(i) == 0 - (df[i].Position * df[i].TradedPrice * df[i].Quantity)

RECURSIVE SumTradePnl(_)
SumTradePnl(S) ==
    IF S = {} THEN 0
    ELSE LET i == CHOOSE x \in S : TRUE IN TradePnl(i) + SumTradePnl(S \ {i})

RECURSIVE SumProfitLoss(_)
SumProfitLoss(R) ==
    IF R = {} THEN 0
    ELSE LET r == CHOOSE x \in R : TRUE IN r.Profit_Loss + SumProfitLoss(R \ {r})

OptionRows == {i \in 1..Len(df) : df[i].Strike # NoValue}

\* C7. Monthly rollup additivity: each stage-1 row holds the summed
\* cashflow of the option trades of its (month, instrument, strike,
\* expiry); each month's total is the sum of that month's stage-1 rows
\* and so of the cashflows of the month's option trades; every option
\* trade falls in exactly one stage-1 row and one month total.
C7_MonthlyRollupAdditivity ==
    pc = "done" =>
        /\ \A r \in monthly_pnl :
              r.Profit_Loss = SumTradePnl({i \in OptionRows :
                  /\ df[i].TradedTime \div TicksPerMonth = r.Month
                  /\ df[i].Ticker = r.Ticker
                  /\ df[i].Strike = r.Strike
                  /\ df[i].Expiry = r.Expiry})
        /\ \A t \in month_total :
              /\ t.Profit_Loss = SumProfitLoss({r \in monthly_pnl : r.Month = t.Month})
              /\ t.Profit_Loss = SumTradePnl({i \in OptionRows :
                     df[i].TradedTime \div TicksPerMonth = t.Month})
        /\ \A i \in OptionRows :
              /\ Cardinality({r \in monthly_pnl :
                     /\ r.Month = df[i].TradedTime \div TicksPerMonth
                     /\ r.Ticker = df[i].Ticker
                     /\ r.Strike = df[i].Strike
                     /\ r.Expiry = df[i].Expiry}) = 1
              /\ Cardinality({t \in month_total :
                     t.Month = df[i].TradedTime \div TicksPerMonth}) = 1

\* A month whose total sums two stage-1 rows.
C7_Witness ==
    /\ pc = "done"
    /\ \E t \in month_total :
          /\ Cardinality({r \in monthly_pnl : r.Month = t.Month}) = 2
          /\ t.Profit_Loss # 0

RequiredKeys == {"Ticker", "Position", "TradedPrice", "Quantity", "TradedTime"}

\* The uploaded document is malformed: no data.trades, or an entry that
\* lacks a required key or holds a value that does not parse.
Malformed ==
    \/ ~hasTrades
    \/ \E i \in 1..Len(df) : df[i].missing \cap RequiredKeys # {} \/ df[i].bad # {}

\* C8. Malformed input aborts the whole run: nothing is drawn for a
\* malformed document, and the script does not run to its end.
C8_MalformedAborts == Malformed => (rendered = {} /\ pc # "done")

\* C9. Empty subsets are not errors: over a document whose entries all
\* hold the required keys with values of their types, and which has no
\* option trade (no entry has a strike) or no cash trade, the script
\* raises no error, and at its end the tables of the absent kind are empty.
C9_EmptySubsetsOk ==
    (/\ hasTrades
     /\ df # <<>>
     /\ ~Malformed
     /\ option_df = <<>> \/ cash_df = <<>>)
        => /\ pc # "error"
           /\ pc = "done" =>
                 /\ option_df = <<>> =>
                        option_holding = {} /\ monthly_pnl = {} /\ month_total = {}
                 /\ cash_df = <<>> => cash_positions = <<>>

====
